---- MODULE Spec2Model ----
(***************************************************************************)
(* Linear spectral unmixing: the solvers of core/spectral_algorithms.py    *)
(* (run_WLS, run_STO), the dataset alignment of ui/analysis_tab.py         *)
(* (run_analysis_from_ui) and the spectrum store of core/data_manager2.py  *)
(* (pre_process_spectra, load_spectrum, interpolate_spectrum).             *)
(*                                                                         *)
(* Numbers.  The program computes in IEEE double precision.  The model     *)
(* computes the same expressions exactly: an emissivity is an integer, an  *)
(* abundance is a reduced fraction <<n, d>> with d > 0, and the three      *)
(* non-finite doubles are NaN = <<0, 0>>, Inf = <<1, 0>>, -Inf = <<-1, 0>>.*)
(* Rounding error of the doubles is therefore not modelled; everything     *)
(* else (shapes, branches, exceptions, the order of the steps) is.         *)
(***************************************************************************)
EXTENDS Integers, Sequences, FiniteSets, TLC

VARIABLES
    pc,             \* position in run_analysis_from_ui / run_WLS / run_STO
    algorithm,      \* "WLS" or "STO"
    EMdat,          \* end-member matrix: a sequence of rows
    M,              \* mixed spectrum
    W,              \* diagonal of the weight matrix
    endmembers,     \* WLSendmembers / STOendmembers: names of the rows of EMdat
    abundances,     \* WLSA / STOA
    result,         \* the returned tuple, or <<>> while the call is running
    err,            \* the exception that ended the call, or "none"
    names0,         \* the names the solver was called with
    EMdat0,         \* the matrix the solver was called with
    removed,        \* per pruning iteration, the names it deleted
    mixed_item,     \* selected mixed spectrum
    selection,      \* selected end-member names, in list order
    slicewl,        \* slice_var: the wavelength cutoff is switched on
    max_wl_var,     \* the cutoff entry, in micrometres
    wavenumber,     \* working grid
    measurerr,      \* uncertainty of the mixed spectrum on the working grid
    files,          \* the file system: path -> content
    call,           \* the last call of a DataManager method and how it ended
    data_df         \* the DataFrame the last successful load_spectrum returned

vars == <<pc, algorithm, EMdat, M, W, endmembers, abundances, result, err,
          names0, EMdat0, removed, mixed_item, selection, slicewl, max_wl_var,
          wavenumber, measurerr, files, call, data_df>>

storeVars == <<files, call, data_df>>

uiVars == <<mixed_item, selection, slicewl, max_wl_var, wavenumber, measurerr>>

----------------------------------------------------------------------------
(* Bounds *)

\* Largest number of end-members handed to one call.
MaxEM == 3

----------------------------------------------------------------------------
(* Exact arithmetic standing for the float64 arithmetic of numpy *)

Abs(x) == IF x < 0 THEN -x ELSE x

RECURSIVE GCD(_, _)
GCD(a, b) == IF b = 0 THEN a ELSE GCD(b, a % b)

\* The fraction n/d in lowest terms with a positive denominator (d # 0).
Frac(n, d) ==
    LET g == GCD(Abs(n), Abs(d))
        s == IF d < 0 THEN -1 ELSE 1
    IN <<(s * n) \div g, (s * d) \div g>>

Num(n) == <<n, 1>>
Zero == Num(0)
One == Num(1)

NaN == <<0, 0>>
Inf == <<1, 0>>
NegInf == <<-1, 0>>

IsFinite(x) == x[2] # 0
IsNaN(x) == x = NaN

\* A vector or matrix row as an explicit sequence of values.
Vector(f) == f \o <<>>

RNeg(x) == <<-x[1], x[2]>>
\* x + y, x * y for finite x, y.  The common factors are taken out before
\* the products are formed, which keeps the intermediate integers small.
RAdd(x, y) ==
    IF x[2] = 1 /\ y[2] = 1 THEN <<x[1] + y[1], 1>>
    ELSE LET g == GCD(x[2], y[2])
         IN Frac(x[1] * (y[2] \div g) + y[1] * (x[2] \div g), (x[2] \div g) * y[2])
RSub(x, y) == RAdd(x, RNeg(y))
RMul(x, y) ==
    IF x[2] = 1 /\ y[2] = 1 THEN <<x[1] * y[1], 1>>
    ELSE LET g == GCD(Abs(x[1]), y[2])
             h == GCD(Abs(y[1]), x[2])
         IN <<(x[1] \div g) * (y[1] \div h), (x[2] \div h) * (y[2] \div g)>>
RSign(x) == IF x[1] > 0 THEN 1 ELSE IF x[1] < 0 THEN -1 ELSE 0
RLeq(x, y) == x[1] * y[2] <= y[1] * x[2]

\* 1/x as numpy divides float64 scalars and arrays: 1/0 is inf (a
\* RuntimeWarning, no exception).
RInv(x) == IF x[1] = 0 THEN Inf ELSE Frac(x[2], x[1])

\* x * y when y may be inf: 0*inf is nan.
FMul(x, y) ==
    IF IsFinite(x) /\ IsFinite(y) THEN RMul(x, y)
    ELSE IF IsNaN(x) \/ IsNaN(y) THEN NaN
    ELSE LET sg == RSign(x) * RSign(y)
         IN IF sg = 0 THEN NaN ELSE IF sg > 0 THEN Inf ELSE NegInf

RECURSIVE RSumTo(_, _)
RSumTo(v, n) == IF n = 0 THEN Zero ELSE RAdd(RSumTo(v, n - 1), v[n])

\* np.sum of a vector of finite numbers.
RSum(v) == RSumTo(v, Len(v))

\* np.around(x, decimals=2), in hundredths: rint(100 x), halves to even.
Around2(x) ==
    LET n == 100 * x[1]
        d == x[2]
        f == n \div d
        r == n - f * d
    IN IF 2 * r < d THEN f
       ELSE IF 2 * r > d THEN f + 1
       ELSE IF f % 2 = 0 THEN f ELSE f + 1

----------------------------------------------------------------------------
(* Vectors and matrices.  A matrix is a sequence of rows. *)

\* Mutation of Delete: nothing is deleted.
DeleteNothing(arr, idx) == arr

\* np.delete(arr, idx) / np.delete(arr, idx, axis=0): the entries (rows)
\* whose index is not in idx, in their order.
Delete(arr, idx) ==
    LET F[n \in 0..Len(arr)] ==
            IF n = 0 THEN <<>>
            ELSE IF n \in idx THEN F[n - 1] ELSE Append(F[n - 1], arr[n])
    IN F[Len(arr)]

\* multi_dot([EMdat, W, EMdat.T]) for the diagonal W: a rows x rows matrix
\* (all zeros when there is no channel).
Gram(E, Wd) ==
    Vector([i \in 1..Len(E) |->
        Vector([j \in 1..Len(E) |->
            RSum(Vector([c \in 1..Len(Wd) |->
                RMul(RMul(E[i][c], Wd[c]), E[j][c])]))])])

\* m without row r and column c.
Minor(m, r, c) ==
    Vector([i \in 1..(Len(m) - 1) |->
        Vector([j \in 1..(Len(m) - 1) |->
            m[IF i < r THEN i ELSE i + 1][IF j < c THEN j ELSE j + 1]])])

RECURSIVE Det(_)
\* Determinant by expansion along the first row; the empty matrix has 1.
Det(m) ==
    IF Len(m) = 0 THEN One
    ELSE RSum(Vector([j \in 1..Len(m) |->
                  IF m[1][j] = Zero THEN Zero
                  ELSE RMul(IF j % 2 = 1 THEN m[1][j] ELSE RNeg(m[1][j]),
                            Det(Minor(m, 1, j)))]))

\* np.linalg.inv raises LinAlgError("Singular matrix") on these.
Singular(m) == Det(m) = Zero

\* np.linalg.inv(m) for a non-singular m: adjugate over determinant.
Inv(m) ==
    LET d == RInv(Det(m))
    IN Vector([i \in 1..Len(m) |->
          Vector([j \in 1..Len(m) |->
              RMul(IF (i + j) % 2 = 0 THEN Det(Minor(m, j, i))
                                      ELSE RNeg(Det(Minor(m, j, i))), d)])])

\* Matrix (rows of fractions) times a vector of fractions.
MatVec(m, v) ==
    Vector([i \in 1..Len(m) |->
        RSum(Vector([j \in 1..Len(v) |-> RMul(m[i][j], v[j])]))])

\* multi_dot([EMdat, W, M]): a vector with one entry per end-member.
EWM(E, Wd, Mv) ==
    Vector([i \in 1..Len(E) |->
        RSum(Vector([c \in 1..Len(Wd) |->
            RMul(RMul(E[i][c], Wd[c]), Mv[c])]))])

\* np.identity(rows).
Identity(rows) ==
    Vector([i \in 1..rows |->
        Vector([j \in 1..rows |-> IF i = j THEN One ELSE Zero])])

----------------------------------------------------------------------------
(* core/spectral_algorithms.py *)

\* Mutation of Negatives: the test is < 0 in place of <= 0.
NegativesStrict(A) == {i \in 1..Len(A) : Around2(A[i]) < 0}

\* Mutation of Negatives: only the first non-positive entry is found.
NegativesFirst(A) ==
    LET Neg == {i \in 1..Len(A) : Around2(A[i]) <= 0}
    IN IF Neg = {} THEN {} ELSE {CHOOSE i \in Neg : \A j \in Neg : i <= j}

\* (np.around(A, decimals=2) <= 0) element by element, as the index set
\* np.argwhere(...)[:, 0].
Negatives(A) == {i \in 1..Len(A) : Around2(A[i]) <= 0}

\* WLSA = (E W E^T)^-1 E W M, for a non-singular Gram matrix.
SolveWLSA(E, Wd, Mv) == MatVec(Inv(Gram(E, Wd)), EWM(E, Wd, Mv))

\* Mutation of SolveSTOA: the projection onto sum(A) = 1 is left out.
SolveSTOA_Unconstrained(E, Wd, Mv) == SolveWLSA(E, Wd, Mv)

\* STOA = STOP . WLSA + P1 . 1/(1^T Q 1), with P1 = Q 1, P2 = 1/(1^T Q 1) 1^T
\* and STOP = I - P1 * P2 (an outer product by broadcasting).
SolveSTOA(E, Wd, Mv) ==
    LET rows == Len(E)
        onesT == Vector([i \in 1..rows |-> One])
        Q == Inv(Gram(E, Wd))
        P1 == MatVec(Q, onesT)
        s == RSum(MatVec(Q, onesT))
        P2 == Vector([j \in 1..rows |-> RMul(RInv(s), onesT[j])])
        I == Identity(rows)
        STOP == Vector([i \in 1..rows |->
                    Vector([j \in 1..rows |->
                        RSub(I[i][j], RMul(P1[i], P2[j]))])])
        WLSA == MatVec(Q, EWM(E, Wd, Mv))
        PW == MatVec(STOP, WLSA)
    IN Vector([i \in 1..rows |-> RAdd(PW[i], RMul(P1[i], RInv(s)))])

\* fit = E^T A (WLS) = A . E (STO): one value per channel.
Fit(E, A, n) ==
    Vector([c \in 1..n |->
        RSum(Vector([i \in 1..Len(E) |-> RMul(E[i][c], A[i])]))])

\* residual = M - fit.
Residual(Mv, fit) == Vector([c \in 1..Len(Mv) |-> RSub(Mv[c], fit[c])])

\* The diagonal of (E W E^T)^-1.  The program returns its square root; the
\* model keeps the squares.
ErrorsSq(E, Wd) ==
    LET Q == Inv(Gram(E, Wd)) IN Vector([i \in 1..Len(E) |-> Q[i][i]])

\* np.sum(np.square(residual)) / np.size(residual): the square of the rms.
\* 0/0 is nan.
RmsSq(res) ==
    IF Len(res) = 0 THEN NaN
    ELSE RMul(RSum(Vector([c \in 1..Len(res) |-> RMul(res[c], res[c])])),
              Frac(1, Len(res)))

\* STOnorm: a copy of STOA; with 'BB' among the names, the BB entries set
\* to 0 and the vector multiplied by factor = 1/np.sum(STOnorm).
STOnormOf(names, STOA) ==
    IF \E i \in 1..Len(names) : names[i] = "BB"
    THEN LET zeroed == Vector([i \in 1..Len(STOA) |->
                           IF names[i] = "BB" THEN Zero ELSE STOA[i]])
             factor == RInv(RSum(zeroed))
         IN Vector([i \in 1..Len(STOA) |-> FMul(zeroed[i], factor)])
    ELSE STOA

\* The exception leaves the function; nothing is returned.
Raise(e) ==
    /\ pc' = "raised"
    /\ err' = e

\* Mutation of WLS_Solve: a solve that never raises (a pseudo-inverse in
\* place of inv), giving zeros on a singular matrix.
WLS_SolveUnchecked ==
    /\ pc = "run_WLS"
    /\ abundances' = IF Singular(Gram(EMdat, W))
                     THEN Vector([i \in 1..Len(EMdat) |-> Zero])
                     ELSE SolveWLSA(EMdat, W, M)
    /\ pc' = "WLS_while"
    /\ UNCHANGED <<algorithm, EMdat, M, W, endmembers, result, err, names0, EMdat0, removed>>
    /\ UNCHANGED uiVars
    /\ UNCHANGED storeVars

\* run_WLS, line 33: the first solve.
WLS_Solve ==
    /\ pc = "run_WLS"
    /\ IF Singular(Gram(EMdat, W))
       THEN Raise("LinAlgError") /\ UNCHANGED abundances
       ELSE /\ abundances' = SolveWLSA(EMdat, W, M)
            /\ pc' = "WLS_while"
            /\ UNCHANGED err
    /\ UNCHANGED <<algorithm, EMdat, M, W, endmembers, result, names0, EMdat0, removed>>
    /\ UNCHANGED uiVars
    /\ UNCHANGED storeVars

\* Mutation of WLS_Prune: the rows are deleted at the indices counted from
\* the end of the matrix.
WLS_PruneMisaligned ==
    /\ pc = "WLS_while"
    /\ Negatives(abundances) # {}
    /\ LET Neg == Negatives(abundances)
           names == Delete(endmembers, Neg)
           E == Delete(EMdat, {Len(EMdat) + 1 - i : i \in Neg})
       IN /\ endmembers' = names
          /\ EMdat' = E
          /\ removed' = Append(removed, {endmembers[i] : i \in Neg})
          /\ IF Singular(Gram(E, W))
             THEN Raise("LinAlgError") /\ UNCHANGED abundances
             ELSE /\ abundances' = SolveWLSA(E, W, M)
                  /\ UNCHANGED <<pc, err>>
    /\ UNCHANGED <<algorithm, M, W, result, names0, EMdat0>>
    /\ UNCHANGED uiVars
    /\ UNCHANGED storeVars

\* Mutation of WLS_Prune: line 40 is missing, the abundances of the
\* survivors are kept from the previous solve.
WLS_PruneStale ==
    /\ pc = "WLS_while"
    /\ Negatives(abundances) # {}
    /\ LET Neg == Negatives(abundances)
       IN /\ endmembers' = Delete(endmembers, Neg)
          /\ EMdat' = Delete(EMdat, Neg)
          /\ removed' = Append(removed, {endmembers[i] : i \in Neg})
          /\ abundances' = Delete(abundances, Neg)
    /\ UNCHANGED <<pc, err, algorithm, M, W, result, names0, EMdat0>>
    /\ UNCHANGED uiVars
    /\ UNCHANGED storeVars

\* run_WLS, lines 36-40: one pass of the while loop.
WLS_Prune ==
    /\ pc = "WLS_while"
    /\ Negatives(abundances) # {}
    /\ LET Neg == Negatives(abundances)
           names == Delete(endmembers, Neg)
           E == Delete(EMdat, Neg)
       IN /\ endmembers' = names
          /\ EMdat' = E
          /\ removed' = Append(removed, {endmembers[i] : i \in Neg})
          /\ IF Singular(Gram(E, W))
             THEN Raise("LinAlgError") /\ UNCHANGED abundances
             ELSE /\ abundances' = SolveWLSA(E, W, M)
                  /\ UNCHANGED <<pc, err>>
    /\ UNCHANGED <<algorithm, M, W, result, names0, EMdat0>>
    /\ UNCHANGED uiVars
    /\ UNCHANGED storeVars

\* run_WLS, lines 43-50: fit, errors, residual, rms and the return.  The
\* matrix inverted in line 44 is the one the last solve inverted.
WLS_Finalize ==
    /\ pc = "WLS_while"
    /\ Negatives(abundances) = {}
    /\ LET WLSfit == Fit(EMdat, abundances, Len(M))
           WLSresidual == Residual(M, WLSfit)
       IN result' = [fit |-> WLSfit,
                     residual |-> WLSresidual,
                     endmembers |-> endmembers,
                     abundances |-> abundances,
                     errors_sq |-> ErrorsSq(EMdat, W),
                     rms_sq |-> RmsSq(WLSresidual)]
    /\ pc' = "returned"
    /\ UNCHANGED <<algorithm, EMdat, M, W, endmembers, abundances, err, names0, EMdat0, removed>>
    /\ UNCHANGED uiVars
    /\ UNCHANGED storeVars

\* run_STO, lines 73-80: the first solve.  Line 76 inverts first.
STO_Solve ==
    /\ pc = "run_STO"
    /\ IF Singular(Gram(EMdat, W))
       THEN Raise("LinAlgError") /\ UNCHANGED abundances
       ELSE /\ abundances' = SolveSTOA(EMdat, W, M)
            /\ pc' = "STO_while"
            /\ UNCHANGED err
    /\ UNCHANGED <<algorithm, EMdat, M, W, endmembers, result, names0, EMdat0, removed>>
    /\ UNCHANGED uiVars
    /\ UNCHANGED storeVars

\* run_STO, lines 83-94: one pass of the while loop.
STO_Prune ==
    /\ pc = "STO_while"
    /\ Negatives(abundances) # {}
    /\ LET Neg == Negatives(abundances)
           names == Delete(endmembers, Neg)
           E == Delete(EMdat, Neg)
       IN /\ endmembers' = names
          /\ EMdat' = E
          /\ removed' = Append(removed, {endmembers[i] : i \in Neg})
          /\ IF Singular(Gram(E, W))
             THEN Raise("LinAlgError") /\ UNCHANGED abundances
             ELSE /\ abundances' = SolveSTOA(E, W, M)
                  /\ UNCHANGED <<pc, err>>
    /\ UNCHANGED <<algorithm, M, W, result, names0, EMdat0>>
    /\ UNCHANGED uiVars
    /\ UNCHANGED storeVars

\* run_STO, lines 97-113: fit, errors, residual, rms, the normalized
\* abundances and the return.
STO_Finalize ==
    /\ pc = "STO_while"
    /\ Negatives(abundances) = {}
    /\ LET STOfit == Fit(EMdat, abundances, Len(M))
           STOresidual == Residual(M, STOfit)
       IN result' = [fit |-> STOfit,
                     residual |-> STOresidual,
                     endmembers |-> endmembers,
                     abundances |-> abundances,
                     errors_sq |-> ErrorsSq(EMdat, W),
                     normalized_abundances |-> STOnormOf(endmembers, abundances),
                     rms_sq |-> RmsSq(STOresidual)]
    /\ pc' = "returned"
    /\ UNCHANGED <<algorithm, EMdat, M, W, endmembers, abundances, err, names0, EMdat0, removed>>
    /\ UNCHANGED uiVars
    /\ UNCHANGED storeVars

----------------------------------------------------------------------------
(* core/data_manager2.py: files, cells and DataFrames *)

\* Largest number of data rows of a raw file.
MaxRows == 3

\* A cell of a table file is the literal written in it: "int" for digits
\* only ("1000"), "float" for a literal with a decimal point or an infinity
\* ("1000.0", "0.5", "inf"), "text" for anything pandas does not read as a
\* number ("abc"), "empty" for nothing between two delimiters.
IntCell(n) == [kind |-> "int", val |-> Num(n)]
FloatCell(x) == [kind |-> "float", val |-> x]
TextCell == [kind |-> "text", val |-> NaN]
EmptyCell == [kind |-> "empty", val |-> NaN]

\* pd.to_numeric(column, errors='coerce'), per cell.
to_numeric(cell) == IF cell.kind \in {"int", "float"} THEN cell.val ELSE NaN

\* The dtype pd.to_numeric gives column j: int64 when every cell is an
\* integer literal, float64 as soon as one cell is not.
ColDtype(rows, j) ==
    IF \A i \in 1..Len(rows) : rows[i][j].kind = "int" THEN "int64" ELSE "float64"

\* A value of a column as to_csv writes it: "1000" from an int64 column,
\* "1000.0" from a float64 column.
Format(x, dtype) == IF dtype = "int64" THEN [kind |-> "int", val |-> x]
                                       ELSE [kind |-> "float", val |-> x]

\* The content of a path.  container tells what the bytes are: "text" for
\* delimited text, "workbook" for a spreadsheet read_excel can open,
\* "damaged" for a file that begins like a zip archive and is not one.
\* encoding is "ascii" when every byte is below 128, "utf-8" or "latin-1"
\* when a name holds a character such as the micro sign in that encoding.
\* columns and rows are the cells of the header line and of the data lines;
\* gaps[j] is the delimiter written between cell j and cell j + 1 of every
\* line, and sep the delimiter the file was written with.  stray is a
\* delimiter that the last data line holds once more, in a remark after its
\* last cell ("" for none).
NoFile == [exists |-> FALSE, container |-> "text", encoding |-> "ascii",
           sep |-> "", gaps |-> <<>>, stray |-> "",
           columns |-> <<>>, rows |-> <<>>]
File(sep, columns, rows) ==
    [exists |-> TRUE, container |-> "text", encoding |-> "ascii",
     sep |-> sep, gaps |-> Vector([j \in 1..(Len(columns) - 1) |-> sep]),
     stray |-> "", columns |-> columns, rows |-> rows]

\* os.path.splitext(file_path)[1].lower() of the paths of the model: the
\* files brought by the user and one file of the pre-processed folders.
Extension ==
    [sample_csv  |-> ".csv",
     sample_txt  |-> ".txt",
     sample_dat  |-> ".dat",
     sample_xlsx |-> ".xlsx",
     library_txt |-> ".txt"]

Paths == DOMAIN Extension
RawPaths == {"sample_csv", "sample_txt", "sample_dat"}
WorkbookPaths == {"sample_xlsx"}
OutputPaths == Paths \ (RawPaths \cup WorkbookPaths)

\* x > 0 and x >= 0 on float64: false for nan, inf > 0.
Gt0(x) == ~IsNaN(x) /\ x[1] > 0
Ge0(x) == ~IsNaN(x) /\ x[1] >= 0

\* np.abs(x).
FAbs(x) == <<Abs(x[1]), x[2]>>

\* No call yet, and no DataFrame yet.
NoCall == [op |-> "none", file_path |-> "none", output_path |-> "none",
           target |-> <<>>, raised |-> "none", value |-> <<>>, base |-> "none"]
NoFrame == [Wavenumber |-> <<>>, Emissivity |-> <<>>, Uncertainty |-> <<>>]

\* The store is not used by the calls of Spec and AnalysisSpec.
StoreIdle ==
    /\ files = [p \in Paths |-> NoFile]
    /\ call = NoCall
    /\ data_df = NoFrame

----------------------------------------------------------------------------
(* The solvers called directly: Spec *)

\* max_wl_var as the window is built.
DefaultMaxWl == 25

\* A sequence of integers as a vector of numbers.
Nums(q) == Vector([i \in 1..Len(q) |-> Num(q[i])])

\* Emissivity of each named end-member on the three channels of a call.
Signature ==
    [BB      |-> Nums(<<2, 2, 2>>),
     quartz  |-> Nums(<<2, 1, 0>>),
     quartz2 |-> Nums(<<2, 1, 0>>),
     olivine |-> Nums(<<0, 1, 2>>),
     albite  |-> Nums(<<1, 2, 1>>)]

Names == DOMAIN Signature

\* Values of the mixed spectrum, per channel.
MVals == {0, 1, 2}

\* Diagonals of the weight matrix: equal weights, or one channel measured
\* with twice the weight of the others.
WDiags == {<<1, 1, 1>>, <<2, 1, 1>>, <<1, 2, 1>>, <<1, 1, 2>>}

Channels == 1..Len(Signature["BB"])

\* Sequences of 1..n distinct elements of S.
InjSeqs(S, n) ==
    {q \in UNION {[1..k -> S] : k \in 1..n} :
        \A i, j \in 1..Len(q) : i # j => q[i] # q[j]}

Init ==
    /\ algorithm \in {"WLS", "STO"}
    /\ pc = IF algorithm = "WLS" THEN "run_WLS" ELSE "run_STO"
    /\ endmembers \in InjSeqs(Names, MaxEM)
    /\ EMdat = Vector([i \in 1..Len(endmembers) |-> Signature[endmembers[i]]])
    /\ \E m \in [Channels -> MVals] : M = Nums(m)
    /\ \E w \in WDiags : W = Nums(w)
    /\ abundances = <<>>
    /\ result = <<>>
    /\ err = "none"
    /\ names0 = endmembers
    /\ EMdat0 = EMdat
    /\ removed = <<>>
    /\ mixed_item = "none"
    /\ selection = <<>>
    /\ slicewl = FALSE
    /\ max_wl_var = DefaultMaxWl
    /\ wavenumber = <<>>
    /\ measurerr = <<>>
    /\ StoreIdle

Next ==
    \/ WLS_Solve
    \/ WLS_Prune
    \/ WLS_Finalize
    \/ STO_Solve
    \/ STO_Prune
    \/ STO_Finalize

Spec == Init /\ [][Next]_vars

----------------------------------------------------------------------------
(* core/data_manager2.py: interpolate_spectrum *)

\* The smallest and the largest entry of a non-empty sequence of integers.
Min(q) == CHOOSE x \in {q[i] : i \in 1..Len(q)} : \A i \in 1..Len(q) : x <= q[i]
Max(q) == CHOOSE x \in {q[i] : i \in 1..Len(q)} : \A i \in 1..Len(q) : x >= q[i]

RECURSIVE RProdTo(_, _)
RProdTo(v, n) == IF n = 0 THEN One ELSE RMul(RProdTo(v, n - 1), v[n])

\* CubicSpline(xs, ys) with scipy's default not-a-knot ends, at a point x of
\* [xs[1], xs[Len(xs)]]: for 2, 3 and 4 knots it is the polynomial of degree
\* 1, 2 and 3 through the knots, here in Lagrange form.
Polynomial(xs, ys, x) ==
    RSum(Vector([i \in 1..Len(xs) |->
        RMul(ys[i],
             RProdTo(Vector([j \in 1..Len(xs) |->
                         IF j = i THEN One ELSE Frac(x - xs[j], xs[i] - xs[j])]),
                     Len(xs)))]))

\* Mutation of SplineValues: the polynomial is evaluated outside the source
\* range as well (extrapolate=True).
SplineValuesExtrapolate(xs, ys, target) ==
    Vector([k \in 1..Len(target) |-> Polynomial(xs, ys, target[k])])

\* cs(target_wavenumbers) with extrapolate=False: nan outside the source
\* range.
SplineValues(xs, ys, target) ==
    Vector([k \in 1..Len(target) |->
        IF target[k] < xs[1] \/ target[k] > xs[Len(xs)] THEN NaN
        ELSE Polynomial(xs, ys, target[k])])

\* Mutation of interpolate_spectrum: lines 322-324 are missing.
interpolate_spectrumNoFastPath(spectrum_df, target_wavenumbers) ==
    LET source_wavenumbers == spectrum_df.Wavenumber
        source_emissivity == spectrum_df.Emissivity
    IN IF Len(source_wavenumbers) # Len(source_emissivity)
       THEN [raised |-> "ValueError: same length", values |-> <<>>, base |-> "none"]
       ELSE IF Len(source_wavenumbers) < 2
       THEN [raised |-> "ValueError: Need at least 2 data points", values |-> <<>>, base |-> "none"]
       ELSE IF Len(target_wavenumbers) = 0
       THEN [raised |-> "ValueError: zero-size array to reduction operation minimum",
             values |-> <<>>, base |-> "none"]
       ELSE IF \/ \E i \in 1..(Len(source_wavenumbers) - 1) :
                     source_wavenumbers[i] >= source_wavenumbers[i + 1]
               \/ \E i \in 1..Len(source_emissivity) : ~IsFinite(source_emissivity[i])
       THEN [raised |-> "ValueError: Interpolation failed", values |-> <<>>, base |-> "none"]
       ELSE [raised |-> "none",
             values |-> SplineValues(source_wavenumbers, source_emissivity,
                                     target_wavenumbers),
             base |-> "none"]

\* interpolate_spectrum(spectrum_df, target_wavenumbers): the array it
\* returns, or the exception it raises.  base is the base of the array, as
\* numpy has it: spectrum_df['Emissivity'].values is a view of the data of
\* the DataFrame, the values of the spline are an array of their own.  CubicSpline raises a ValueError
\* for knots that are not strictly increasing and for values that are not
\* finite, which line 349 wraps.
interpolate_spectrum(spectrum_df, target_wavenumbers) ==
    LET source_wavenumbers == spectrum_df.Wavenumber
        source_emissivity == spectrum_df.Emissivity
    IN IF source_wavenumbers = target_wavenumbers
       THEN [raised |-> "none", values |-> source_emissivity, base |-> "spectrum_df"]
       ELSE IF Len(source_wavenumbers) # Len(source_emissivity)
       THEN [raised |-> "ValueError: same length", values |-> <<>>, base |-> "none"]
       ELSE IF Len(source_wavenumbers) < 2
       THEN [raised |-> "ValueError: Need at least 2 data points", values |-> <<>>, base |-> "none"]
       ELSE IF Len(target_wavenumbers) = 0
       THEN [raised |-> "ValueError: zero-size array to reduction operation minimum",
             values |-> <<>>, base |-> "none"]
       ELSE IF \/ \E i \in 1..(Len(source_wavenumbers) - 1) :
                     source_wavenumbers[i] >= source_wavenumbers[i + 1]
               \/ \E i \in 1..Len(source_emissivity) : ~IsFinite(source_emissivity[i])
       THEN [raised |-> "ValueError: Interpolation failed", values |-> <<>>, base |-> "none"]
       ELSE [raised |-> "none",
             values |-> SplineValues(source_wavenumbers, source_emissivity,
                                     target_wavenumbers),
             base |-> "none"]

----------------------------------------------------------------------------
(* ui/analysis_tab.py: run_analysis_from_ui *)

\* 1e-12 of line 443.  The uncertainties of the model are counted in units
\* of 1e-6, so that their squares are counted in units of 1e-12.
Eps == 1

\* Pre-processed mixed spectra, as load_spectrum returns them.
MixedFiles ==
    [rock1 |-> [Wavenumber  |-> <<1000, 1200, 1400, 1500>>,
                Emissivity  |-> Nums(<<2, 3, 1, 1>>),
                Uncertainty |-> Nums(<<1, 1, 2, 0>>)],
     rock2 |-> [Wavenumber  |-> <<1000, 1200, 1400, 1500>>,
                Emissivity  |-> Nums(<<1, 1, 2, 3>>),
                Uncertainty |-> Nums(<<2, 1, 1, 1>>)]]

\* The spectral library, as load_spectrum returns its files.
Library ==
    [BB       |-> [Wavenumber |-> <<1000, 1200, 1400, 1500>>,
                   Emissivity |-> Nums(<<2, 2, 2, 2>>)],
     quartz   |-> [Wavenumber |-> <<1000, 1200, 1400, 1500>>,
                   Emissivity |-> Nums(<<2, 1, 0, 1>>)],
     quartz2  |-> [Wavenumber |-> <<1000, 1200, 1400, 1500>>,
                   Emissivity |-> Nums(<<2, 1, 0, 1>>)],
     olivine  |-> [Wavenumber |-> <<1000, 1200, 1400>>,
                   Emissivity |-> Nums(<<0, 1, 2>>)],
     albite   |-> [Wavenumber |-> <<1000, 1500>>,
                   Emissivity |-> Nums(<<1, 6>>)],
     lowband  |-> [Wavenumber |-> <<1000, 1200>>,
                   Emissivity |-> Nums(<<1, 2>>)],
     highband |-> [Wavenumber |-> <<1400, 1500>>,
                   Emissivity |-> Nums(<<2, 1>>)],
     trace    |-> [Wavenumber |-> <<1200>>,
                   Emissivity |-> Nums(<<1>>)]]

\* Values of the cutoff entry; validate_parameters admits 0 < value <= 100.
MaxWlVals == {5, 8, DefaultMaxWl}

\* arr[mask]: the entries at the positions where mask is TRUE.
Masked(arr, mask) == Delete(arr, {i \in 1..Len(arr) : ~mask[i]})

\* Lines 387-404: load the mixed spectrum, apply the cutoff, build M,
\* measurerr and the first weight matrix.
LoadMixed ==
    /\ pc = "load_mixed"
    /\ LET mixed_df == MixedFiles[mixed_item]
           wn == mixed_df.Wavenumber
           valid_indices ==
               [i \in 1..Len(wn) |-> RLeq(Frac(10000, wn[i]), Num(max_wl_var))]
           cut == slicewl
           u == IF cut THEN Masked(mixed_df.Uncertainty, valid_indices)
                       ELSE mixed_df.Uncertainty
       IN /\ wavenumber' = IF cut THEN Masked(wn, valid_indices) ELSE wn
          /\ M' = IF cut THEN Masked(mixed_df.Emissivity, valid_indices)
                         ELSE mixed_df.Emissivity
          /\ measurerr' = u
          /\ W' = Vector([i \in 1..Len(u) |-> RInv(RMul(u[i], u[i]))])
    /\ pc' = "load_endmembers"
    /\ UNCHANGED <<algorithm, EMdat, endmembers, abundances, result, err, names0, EMdat0,
                   removed, mixed_item, selection, slicewl, max_wl_var>>
    /\ UNCHANGED storeVars

\* Lines 406-416: load and resample every selected end-member; the first
\* exception ends the loop.
LoadEndMembers ==
    /\ pc = "load_endmembers"
    /\ LET em == Vector([k \in 1..Len(selection) |->
                     interpolate_spectrum(Library[selection[k]], wavenumber)])
           bad == {k \in 1..Len(selection) : em[k].raised # "none"}
       IN IF bad # {}
          THEN /\ Raise(em[CHOOSE k \in bad : \A l \in bad : k <= l].raised)
               /\ UNCHANGED EMdat
          ELSE /\ EMdat' = Vector([k \in 1..Len(selection) |-> em[k].values])
               /\ pc' = "clean"
               /\ UNCHANGED err
    /\ UNCHANGED <<algorithm, M, W, endmembers, abundances, result, names0, EMdat0, removed>>
    /\ UNCHANGED uiVars
    /\ UNCHANGED storeVars

\* Mutation of invalid_channels_mask: only the first end-member is looked at.
invalid_channels_maskFirstRow(E, Mv) ==
    [c \in 1..Len(Mv) |-> IsNaN(E[1][c]) \/ IsNaN(Mv[c])]

\* np.isnan(EMdat).any(axis=0) | np.isnan(M), per channel.
invalid_channels_mask(E, Mv) ==
    [c \in 1..Len(Mv) |->
        (\E k \in 1..Len(E) : IsNaN(E[k][c])) \/ IsNaN(Mv[c])]

\* Lines 425-443: drop the channels with a NaN and rebuild the weights.
CleanChannels ==
    /\ pc = "clean"
    /\ LET invalid == invalid_channels_mask(EMdat, M)
           valid == [c \in 1..Len(M) |-> ~invalid[c]]
           any == \E c \in 1..Len(M) : invalid[c]
           wn == IF any THEN Masked(wavenumber, valid) ELSE wavenumber
           Mv == IF any THEN Masked(M, valid) ELSE M
           u == IF any THEN Masked(measurerr, valid) ELSE measurerr
           E == IF any THEN Vector([k \in 1..Len(EMdat) |-> Masked(EMdat[k], valid)])
                       ELSE EMdat
       IN /\ wavenumber' = wn
          /\ M' = Mv
          /\ measurerr' = u
          /\ EMdat' = E
          /\ IF any /\ (Len(Mv) = 0 \/ Len(E) * Len(Mv) = 0)
             THEN /\ Raise("ValueError: No overlapping spectral range")
                  /\ UNCHANGED W
             ELSE /\ W' = Vector([i \in 1..Len(u) |->
                               RInv(RAdd(RMul(u[i], u[i]), Num(Eps)))])
                  /\ pc' = "run_algorithm"
                  /\ UNCHANGED err
    /\ UNCHANGED <<algorithm, endmembers, abundances, result, names0, EMdat0, removed,
                   mixed_item, selection, slicewl, max_wl_var>>
    /\ UNCHANGED storeVars

\* Lines 469-471 and 482-483: the call of run_WLS or run_STO with
\* np.array(endmembers).
RunAlgorithm ==
    /\ pc = "run_algorithm"
    /\ pc' = IF algorithm = "WLS" THEN "run_WLS" ELSE "run_STO"
    /\ endmembers' = selection
    /\ names0' = selection
    /\ EMdat0' = EMdat
    /\ UNCHANGED <<algorithm, EMdat, M, W, abundances, result, err, removed>>
    /\ UNCHANGED uiVars
    /\ UNCHANGED storeVars

InitAnalysis ==
    /\ pc = "load_mixed"
    /\ algorithm \in {"WLS", "STO"}
    /\ mixed_item \in DOMAIN MixedFiles
    /\ selection \in InjSeqs(DOMAIN Library, MaxEM)
    /\ slicewl \in BOOLEAN
    /\ max_wl_var \in IF slicewl THEN MaxWlVals ELSE {DefaultMaxWl}
    /\ EMdat = <<>>
    /\ M = <<>>
    /\ W = <<>>
    /\ endmembers = <<>>
    /\ abundances = <<>>
    /\ result = <<>>
    /\ err = "none"
    /\ names0 = <<>>
    /\ EMdat0 = <<>>
    /\ removed = <<>>
    /\ wavenumber = <<>>
    /\ measurerr = <<>>
    /\ StoreIdle

NextAnalysis ==
    \/ LoadMixed
    \/ LoadEndMembers
    \/ CleanChannels
    \/ RunAlgorithm
    \/ Next

AnalysisSpec == InitAnalysis /\ [][NextAnalysis]_vars

----------------------------------------------------------------------------
(* core/data_manager2.py: pre_process_spectra and load_spectrum *)

\* The five classifications of validate_file_format.
Formats == {"excel", "csv", "txt", "csv_disguised_as_excel", "unknown"}

\* A DataFrame as a reader returns it, or the exception the reader raises;
\* delimiter and encoding are the arguments of the pd.read_csv call that
\* made it ("" for another reader).
Table(raised, columns, rows, delimiter, encoding) ==
    [raised |-> raised, columns |-> columns, rows |-> rows,
     delimiter |-> delimiter, encoding |-> encoding]
Raising(e) == Table(e, <<>>, <<>>, "", "")

\* pd.read_excel(file_path): the first sheet of a workbook.  pandas looks at
\* the first bytes of the file, not at its extension: text is neither a zip
\* archive nor an OLE file.
read_excel(file) ==
    IF ~file.exists THEN Raising("FileNotFoundError")
    ELSE IF file.container = "text"
    THEN Raising("ValueError: Excel file format cannot be determined, you must specify an engine manually.")
    ELSE IF file.container = "damaged"
    THEN Raising("BadZipFile: File is not a zip file")
    ELSE Table("none", file.columns, file.rows, "", "")

\* The messages of the model that hold one of the three texts of lines
\* 46-48.
DisguiseSignatures ==
    {"ValueError: Excel file format cannot be determined, you must specify an engine manually.",
     "XLRDError: CompDoc is not a recognised OLE file",
     "InvalidFileException: File contains an invalid specification"}

\* Mutation of validate_file_format: the extension decides alone.
validate_file_formatByExtension(file_path) ==
    LET file_extension == Extension[file_path]
    IN IF file_extension \in {".xlsx", ".xls"} THEN "excel"
       ELSE IF file_extension = ".csv" THEN "csv"
       ELSE IF file_extension = ".txt" THEN "txt"
       ELSE "unknown"

\* validate_file_format, lines 34-58: the classification, or the exception
\* that line 52 raises again.
validate_file_format(file_path) ==
    LET file_extension == Extension[file_path]
        sample == read_excel(files[file_path])
    IN IF file_extension \in {".xlsx", ".xls"}
       THEN IF sample.raised = "none" THEN "excel"
            ELSE IF sample.raised \in DisguiseSignatures THEN "csv_disguised_as_excel"
            ELSE sample.raised
       ELSE IF file_extension = ".csv" THEN "csv"
       ELSE IF file_extension = ".txt" THEN "txt"
       ELSE "unknown"

\* The delimiters and the encodings of lines 65 and 67, in the order of the
\* two loops.
delimiters == <<",", "\t", ";", "|">>
encodings == <<"utf-8", "latin-1", "cp1252", "iso-8859-1">>

\* The headers of the raw tables of StoreSpec.
Headers == {<<"Wavenumber", "Emissivity", "Uncertainty">>, <<"x", "y">>}

\* The headers of the raw tables of IngestSpec: names of instruments and of
\* spreadsheets made by hand.
IngestHeaders ==
    {<<"Wavenumber", "Emissivity", "Uncertainty">>,
     <<"Wavenumber", "Emissivity">>,
     <<"x", "y">>,
     <<"Emissivity", "x">>,
     <<"x", "y", "Emissivity">>,
     <<"Wavenumber", "Signal std", "Uncertainty">>,
     <<"Wavenumber", "Emissivity", "Error">>,
     <<"Wavenumber", "Emissivity", "Uncertainty", "Note">>,
     <<"Label", "Name", "Unit", "Wavenumber", "Emissivity">>}

\* The roles whose keywords (lines 160, 165, 170) occur in the lower-cased
\* name of a column, for the names of the cells of a header line.
CellKeywords ==
    ("Wavenumber"  :> {"wavenumber"}) @@
    ("Emissivity"  :> {"emissivity"}) @@
    ("Uncertainty" :> {"uncertainty"}) @@
    ("Signal std"  :> {"emissivity", "uncertainty"}) @@
    ("Error"       :> {"uncertainty"}) @@
    ("x" :> {}) @@ ("y" :> {}) @@ ("Note" :> {}) @@
    ("Label" :> {}) @@ ("Name" :> {}) @@ ("Unit" :> {})

\* The text of cells first..last of a header line with the delimiters between
\* them: the name of a column when the line is not cut there.
RECURSIVE JoinNames(_, _, _, _)
JoinNames(columns, gaps, first, last) ==
    IF first = last THEN columns[first]
    ELSE JoinNames(columns, gaps, first, last - 1) \o gaps[last - 1] \o columns[last]

\* The names a reader gives a column that spans several cells of the header
\* line, each with the keywords of its cells: no keyword holds a delimiter.
JoinedNames ==
    UNION {{[name |-> JoinNames(h, t[1], t[2], t[3]),
             keys |-> UNION {CellKeywords[h[j]] : j \in t[2]..t[3]}] :
                t \in {u \in [1..(Len(h) - 1) -> {delimiters[d] : d \in 1..Len(delimiters)}]
                              \X (1..Len(h)) \X (1..Len(h)) : u[2] < u[3]}} :
           h \in Headers \cup IngestHeaders}

\* The roles whose keywords occur in the name of a column.
Keywords ==
    [n \in DOMAIN CellKeywords \cup {m.name : m \in JoinedNames} |->
        IF n \in DOMAIN CellKeywords THEN CellKeywords[n]
        ELSE (CHOOSE m \in JoinedNames : m.name = n).keys]

\* The elements of a set of numbers in ascending order.
Sorted(S) ==
    Vector([i \in 1..Cardinality(S) |->
        CHOOSE x \in S : Cardinality({y \in S : y < x}) = i - 1])

\* pd.read_csv(file_path, delimiter=delimiter, encoding=encoding) of a file
\* with a header line.  Every line is cut at the gaps that hold the
\* delimiter; cells that stay together are one cell of text, and so is a
\* cell with a remark after it.  A line with more fields than the lines
\* before it is a ParserError: the files of the model that hold a stray
\* delimiter have two data lines or more.  The bytes of a workbook are not
\* text in any encoding the callers try first.
read_csv(file, delimiter, encoding) ==
    LET n == Len(file.columns)
        at == {j \in 1..(n - 1) : file.gaps[j] = delimiter}
        cuts == Sorted(at)
        m == Cardinality(at) + 1
        first(c) == IF c = 1 THEN 1 ELSE cuts[c - 1] + 1
        last(c) == IF c = m THEN n ELSE cuts[c]
        cell(i, c) == IF first(c) # last(c) THEN TextCell
                      ELSE IF c = m /\ i = Len(file.rows) /\ file.stray # "" THEN TextCell
                      ELSE file.rows[i][first(c)]
    IN IF ~file.exists THEN Raising("FileNotFoundError")
       ELSE IF file.container # "text" THEN Raising("UnicodeDecodeError")
       ELSE IF encoding = "utf-8" /\ file.encoding = "latin-1"
       THEN Raising("UnicodeDecodeError")
       ELSE IF n = 0 THEN Raising("EmptyDataError: No columns to parse from file")
       ELSE IF file.stray = delimiter THEN Raising("ParserError: Error tokenizing data")
       ELSE IF m = n /\ file.stray = ""
       THEN Table("none", file.columns, file.rows, delimiter, encoding)
       ELSE Table("none",
                  Vector([c \in 1..m |-> JoinNames(file.columns, file.gaps, first(c), last(c))]),
                  Vector([i \in 1..Len(file.rows) |-> Vector([c \in 1..m |-> cell(i, c)])]),
                  delimiter, encoding)

\* The delimiter and the encoding of pass k of the two loops of lines 72-73.
Combination(k) ==
    [delimiter |-> delimiters[((k - 1) \div Len(encodings)) + 1],
     encoding  |-> encodings[((k - 1) % Len(encodings)) + 1]]

\* Lines 85-95: the score of a candidate.
Score(df) ==
    LET first3 == {j \in 1..3 : j <= Len(df.columns)}
        head10 == {i \in 1..10 : i <= Len(df.rows)}
        numeric_cols == Cardinality({j \in first3 :
                            \A i \in head10 : df.rows[i][j].kind # "text"})
    IN Len(df.columns) * numeric_cols * Len(df.rows)

\* Mutation of Detect: a candidate that scores as much as the best one
\* replaces it.
RECURSIVE DetectLast(_, _, _, _)
DetectLast(file, k, best_df, best_score) ==
    IF k > Len(delimiters) * Len(encodings) THEN best_df
    ELSE CHOOSE best \in
            {IF df.raised # "none" \/ Len(df.columns) < 2
             THEN DetectLast(file, k + 1, best_df, best_score)
             ELSE IF Score(df) >= best_score
             THEN DetectLast(file, k + 1, df, Score(df))
             ELSE DetectLast(file, k + 1, best_df, best_score) :
                df \in {read_csv(file, Combination(k).delimiter,
                                 Combination(k).encoding)}} : TRUE

\* Lines 72-102, from pass k on: best_df after the last pass.  df is the
\* table of pass k, or the exception of line 101.
RECURSIVE Detect(_, _, _, _)
Detect(file, k, best_df, best_score) ==
    IF k > Len(delimiters) * Len(encodings) THEN best_df
    ELSE CHOOSE best \in
            {IF df.raised # "none" \/ Len(df.columns) < 2
             THEN Detect(file, k + 1, best_df, best_score)
             ELSE IF Score(df) > best_score
             THEN Detect(file, k + 1, df, Score(df))
             ELSE Detect(file, k + 1, best_df, best_score) :
                df \in {read_csv(file, Combination(k).delimiter,
                                 Combination(k).encoding)}} : TRUE

\* read_csv_with_detection, lines 60-107; best_df starts as None, which
\* line 104 turns into the ValueError.
read_csv_with_detection(file) ==
    Detect(file, 1, Raising("ValueError: Could not read CSV file"), 0)

\* Lines 261-280: the ValueError raised for an exception of the readers.
Handled(e) ==
    IF e = "EmptyDataError: No columns to parse from file"
    THEN "ValueError: appears to be empty or has no readable data"
    ELSE IF e = "ValueError: Could not read CSV file" THEN e
    ELSE "ValueError: " \o e

\* Lines 130-136: the table of a .txt file.
read_txt(file) ==
    CHOOSE df_raw \in {IF tab.raised = "none" THEN tab
                       ELSE read_csv(file, ",", "utf-8") :
                          tab \in {read_csv(file, "\t", "utf-8")}} : TRUE

\* Mutation of ReadRaw: a file classified csv_disguised_as_excel is given
\* to the spreadsheet reader.
ReadRawByExtension(file, file_format) ==
    IF file_format \notin Formats THEN Raising(Handled(file_format))
    ELSE IF file_format = "unknown"
    THEN Raising("ValueError: Unsupported file format")
    ELSE CHOOSE checked \in
            {IF df_raw.raised # "none" THEN Raising(Handled(df_raw.raised))
             ELSE IF Len(df_raw.rows) = 0 THEN Raising("ValueError: File is empty")
             ELSE IF Len(df_raw.columns) < 2
             THEN Raising("ValueError: must contain at least wavenumber and emissivity columns")
             ELSE df_raw :
                df_raw \in {IF file_format \in {"excel", "csv_disguised_as_excel"}
                            THEN read_excel(file)
                            ELSE IF file_format = "csv"
                            THEN read_csv_with_detection(file)
                            ELSE read_txt(file)}} : TRUE

\* Lines 116-149: the raw table, or the exception that ends the call.
ReadRaw(file, file_format) ==
    IF file_format \notin Formats THEN Raising(Handled(file_format))
    ELSE IF file_format = "unknown"
    THEN Raising("ValueError: Unsupported file format")
    ELSE CHOOSE checked \in
            {IF df_raw.raised # "none" THEN Raising(Handled(df_raw.raised))
             ELSE IF Len(df_raw.rows) = 0 THEN Raising("ValueError: File is empty")
             ELSE IF Len(df_raw.columns) < 2
             THEN Raising("ValueError: must contain at least wavenumber and emissivity columns")
             ELSE df_raw :
                df_raw \in {IF file_format = "excel" THEN read_excel(file)
                            ELSE IF file_format \in {"csv", "csv_disguised_as_excel"}
                            THEN read_csv_with_detection(file)
                            ELSE read_txt(file)}} : TRUE

\* Mutation of ScanColumns: the tests of lines 164 and 169 are if, not elif.
RECURSIVE ScanColumnsEveryRole(_, _, _, _, _)
ScanColumnsEveryRole(columns, i, w, e, u) ==
    IF i > Len(columns) THEN [w |-> w, e |-> e, u |-> u]
    ELSE LET k == Keywords[columns[i]]
         IN ScanColumnsEveryRole(columns, i + 1,
                IF w = 0 /\ "wavenumber" \in k THEN i ELSE w,
                IF e = 0 /\ "emissivity" \in k THEN i ELSE e,
                IF u = 0 /\ "uncertainty" \in k THEN i ELSE u)

\* Lines 152-171: one scan over the columns; w, e, u are the columns found
\* so far (0 for None).
RECURSIVE ScanColumns(_, _, _, _, _)
ScanColumns(columns, i, w, e, u) ==
    IF i > Len(columns) THEN [w |-> w, e |-> e, u |-> u]
    ELSE LET k == Keywords[columns[i]]
         IN IF w = 0 /\ "wavenumber" \in k THEN ScanColumns(columns, i + 1, i, e, u)
            ELSE IF e = 0 /\ "emissivity" \in k THEN ScanColumns(columns, i + 1, w, i, u)
            ELSE IF u = 0 /\ "uncertainty" \in k THEN ScanColumns(columns, i + 1, w, e, i)
            ELSE ScanColumns(columns, i + 1, w, e, u)

\* Mutation of IdentifyColumns: the positions of wavenumber and emissivity
\* are exchanged and the names are not looked at.
IdentifyColumnsSwapped(columns) ==
    [wavenumber_col  |-> 2,
     emissivity_col  |-> 1,
     uncertainty_col |-> IF Len(columns) > 2 THEN 3 ELSE 0]

\* Lines 152-184: the columns by keyword, then by position.
IdentifyColumns(columns) ==
    LET c == ScanColumns(columns, 1, 0, 0, 0)
    IN [wavenumber_col  |-> IF c.w = 0 THEN 1 ELSE c.w,
        emissivity_col  |-> IF c.e = 0 THEN 2 ELSE c.e,
        uncertainty_col |-> IF c.u = 0 /\ Len(columns) > 2 THEN 3 ELSE c.u]

\* Line 186: the names of the three columns as they are printed, once the
\* columns are identified.
UsingColumns(df_raw) ==
    LET c == IdentifyColumns(df_raw.columns)
    IN IF df_raw.raised # "none" THEN <<>>
       ELSE <<df_raw.columns[c.wavenumber_col],
              df_raw.columns[c.emissivity_col],
              IF c.uncertainty_col = 0 THEN "None"
              ELSE df_raw.columns[c.uncertainty_col]>>

\* Lines 189-213: clean_df before the cleaning, one record per row of the
\* raw table; idx is the index pandas keeps for the row.
NumericFrame(df_raw) ==
    LET c == IdentifyColumns(df_raw.columns)
    IN Vector([i \in 1..Len(df_raw.rows) |->
        LET em == to_numeric(df_raw.rows[i][c.emissivity_col])
        IN [idx |-> i,
            Wavenumber  |-> to_numeric(df_raw.rows[i][c.wavenumber_col]),
            Emissivity  |-> em,
            Uncertainty |-> IF c.uncertainty_col # 0
                            THEN to_numeric(df_raw.rows[i][c.uncertainty_col])
                            ELSE FMul(Frac(2, 100), FAbs(em))]])

\* The dtypes of the three columns of clean_df.
Dtypes(df_raw) ==
    LET c == IdentifyColumns(df_raw.columns)
    IN [Wavenumber  |-> ColDtype(df_raw.rows, c.wavenumber_col),
        Emissivity  |-> ColDtype(df_raw.rows, c.emissivity_col),
        Uncertainty |-> IF c.uncertainty_col # 0
                        THEN ColDtype(df_raw.rows, c.uncertainty_col)
                        ELSE "float64"]

\* Lines 220-226: dropna on wavenumber and emissivity, wavenumber > 0,
\* uncertainty >= 0 (a comparison that is False for nan).
CleanRows(clean_df) ==
    SelectSeq(clean_df, LAMBDA r :
        /\ ~IsNaN(r.Wavenumber) /\ ~IsNaN(r.Emissivity)
        /\ Gt0(r.Wavenumber)
        /\ Ge0(r.Uncertainty))

\* sort_values(by='Wavenumber') with the default kind='quicksort', which is
\* not stable: every order of the rows that is ascending in the wavenumber
\* is a possible outcome.
sort_values(rows) ==
    LET n == Len(rows)
        orders == {p \in [1..n -> 1..n] :
                      /\ \A i, j \in 1..n : i # j => p[i] # p[j]
                      /\ \A i \in 1..(n - 1) :
                            RLeq(rows[p[i]].Wavenumber, rows[p[i + 1]].Wavenumber)}
    IN {Vector([i \in 1..n |-> rows[p[i]]]) : p \in orders}

\* Mutation of drop_duplicates: every row is kept.
drop_duplicatesKeepAll(rows) == rows

\* drop_duplicates(subset=['Wavenumber'], keep='first').
drop_duplicates(rows) ==
    Delete(rows, {i \in 1..Len(rows) :
                     \E j \in 1..(i - 1) : rows[j].Wavenumber = rows[i].Wavenumber})

\* clean_df.to_csv(output_path, sep='\t', index=False).
to_csv(rows, dtypes) ==
    File("\t", <<"Wavenumber", "Emissivity", "Uncertainty">>,
         Vector([i \in 1..Len(rows) |->
             <<Format(rows[i].Wavenumber, dtypes.Wavenumber),
               Format(rows[i].Emissivity, dtypes.Emissivity),
               Format(rows[i].Uncertainty, dtypes.Uncertainty)>>]))

\* The columns of a DataFrame from its rows.
Frame(rows) ==
    [Wavenumber  |-> Vector([i \in 1..Len(rows) |-> rows[i].Wavenumber]),
     Emissivity  |-> Vector([i \in 1..Len(rows) |-> rows[i].Emissivity]),
     Uncertainty |-> Vector([i \in 1..Len(rows) |-> rows[i].Uncertainty])]

\* Mutation of dropna: only the rows with a nan wavenumber are dropped.
dropnaWavenumber(rows) == SelectSeq(rows, LAMBDA r : ~IsNaN(r.Wavenumber))

\* data_df.dropna(): the rows without a nan in any column.
dropna(rows) ==
    SelectSeq(rows, LAMBDA r :
        ~IsNaN(r.Wavenumber) /\ ~IsNaN(r.Emissivity) /\ ~IsNaN(r.Uncertainty)
        /\ ~r.other_nan)

\* load_spectrum, lines 286-307: the rows before the sort, or the exception
\* that line 315 wraps.
LoadRows(file) ==
    LET required_columns == {"Wavenumber", "Emissivity", "Uncertainty"}
        fail(e) == [raised |-> e, rows |-> <<>>]
        Checked(df) ==
            LET cols == 1..Len(df.columns)
                missing_columns == {c \in required_columns :
                                       \A j \in cols : df.columns[j] # c}
                col(c) == CHOOSE j \in cols : df.columns[j] = c
                numeric == Vector([i \in 1..Len(df.rows) |->
                              [idx |-> i,
                               Wavenumber  |-> to_numeric(df.rows[i][col("Wavenumber")]),
                               Emissivity  |-> to_numeric(df.rows[i][col("Emissivity")]),
                               Uncertainty |-> to_numeric(df.rows[i][col("Uncertainty")]),
                               other_nan   |-> \E j \in cols :
                                                  /\ df.columns[j] \notin required_columns
                                                  /\ df.rows[i][j].kind = "empty"]])
            IN IF df.raised = "FileNotFoundError"
               THEN fail("ValueError: Failed to load spectrum: FileNotFoundError")
               ELSE IF df.raised = "EmptyDataError: No columns to parse from file"
               THEN fail("ValueError: Failed to load spectrum: No columns to parse from file")
               ELSE IF df.raised # "none"
               THEN fail("ValueError: Failed to load spectrum: " \o df.raised)
               ELSE IF missing_columns # {}
               THEN fail("ValueError: Failed to load spectrum: missing required columns")
               ELSE IF Len(dropna(numeric)) = 0
               THEN fail("ValueError: Failed to load spectrum: No valid data in file")
               ELSE [raised |-> "none", rows |-> dropna(numeric)]
    IN CHOOSE loaded \in {Checked(data_table) :
                            data_table \in {read_csv(file, "\t", "utf-8")}} : TRUE

----------------------------------------------------------------------------
(* The spectrum store: StoreSpec *)

analysisVars == <<pc, algorithm, EMdat, M, W, endmembers, abundances, result, err,
                  names0, EMdat0, removed, mixed_item, selection, slicewl,
                  max_wl_var, wavenumber, measurerr>>

\* The record of a call that has ended.
Called(op, file_path, output_path, target, raised, value) ==
    [op |-> op, file_path |-> file_path, output_path |-> output_path,
     target |-> target, raised |-> raised, value |-> value, base |-> "none"]

\* Mutation of pre_process_spectra: line 250 is moved before the check of
\* line 232.
pre_process_spectraWriteFirst ==
    /\ \E file_path \in Paths, output_path \in OutputPaths :
       \E df_raw \in {ReadRaw(files[file_path], validate_file_format(file_path))} :
        LET clean_df == CleanRows(NumericFrame(df_raw))
            done(e) == call' = Called("pre_process_spectra", file_path, output_path,
                                      <<>>, e, UsingColumns(df_raw))
        IN IF df_raw.raised # "none"
           THEN done(df_raw.raised) /\ UNCHANGED files
           ELSE \E sorted \in sort_values(clean_df) :
                   /\ files' = [files EXCEPT ![output_path] =
                                   to_csv(drop_duplicates(sorted), Dtypes(df_raw))]
                   /\ IF Len(clean_df) = 0
                      THEN done("ValueError: No valid data rows remaining after cleaning")
                      ELSE done("none")
    /\ UNCHANGED data_df
    /\ UNCHANGED analysisVars

\* pre_process_spectra(file_path, output_path), lines 109-280.  The file is
\* written by line 250, the last statement that can fail.
pre_process_spectra ==
    /\ \E file_path \in Paths, output_path \in OutputPaths :
       \E df_raw \in {ReadRaw(files[file_path], validate_file_format(file_path))} :
        LET clean_df == CleanRows(NumericFrame(df_raw))
            done(e) == call' = Called("pre_process_spectra", file_path, output_path,
                                      <<>>, e, UsingColumns(df_raw))
        IN IF df_raw.raised # "none"
           THEN done(df_raw.raised) /\ UNCHANGED files
           ELSE IF Len(clean_df) = 0
           THEN /\ done("ValueError: No valid data rows remaining after cleaning")
                /\ UNCHANGED files
           ELSE \E sorted \in sort_values(clean_df) :
                   /\ files' = [files EXCEPT ![output_path] =
                                   to_csv(drop_duplicates(sorted), Dtypes(df_raw))]
                   /\ done("none")
    /\ UNCHANGED data_df
    /\ UNCHANGED analysisVars

\* load_spectrum(file_path), lines 282-315; the caller keeps the DataFrame.
load_spectrum ==
    /\ \E file_path \in Paths :
        LET loaded == LoadRows(files[file_path])
            done(e) == call' = Called("load_spectrum", file_path, "none", <<>>, e, <<>>)
        IN IF loaded.raised # "none"
           THEN done(loaded.raised) /\ UNCHANGED data_df
           ELSE \E sorted \in sort_values(loaded.rows) :
                   /\ data_df' = Frame(sorted)
                   /\ done("none")
    /\ UNCHANGED files
    /\ UNCHANGED analysisVars

\* The grids a loaded spectrum is resampled on.
TargetGrids ==
    {<<>>, <<1200>>, <<1000, 1200>>, <<1000, 1200, 1400>>, <<900, 1000, 1100, 1500>>}

\* The wavenumbers of the files of the model are whole numbers.
Ints(v) == Vector([i \in 1..Len(v) |-> v[i][1]])

\* interpolate_spectrum(data_df, target_wavenumbers) on the DataFrame the
\* caller holds, as in lines 410-413 of ui/analysis_tab.py.
Interpolate ==
    /\ data_df # NoFrame
    /\ \E target \in TargetGrids :
        LET spectrum_df == [Wavenumber |-> Ints(data_df.Wavenumber),
                            Emissivity |-> data_df.Emissivity]
            r == interpolate_spectrum(spectrum_df, target)
        IN call' = [Called("interpolate_spectrum", "none", "none", target,
                           r.raised, r.values) EXCEPT !.base = r.base]
    /\ UNCHANGED <<files, data_df>>
    /\ UNCHANGED analysisVars

\* The rows of the raw tables, as (wavenumber, emissivity, uncertainty):
\* two valid rows, a repeated wavenumber with an infinite emissivity, a
\* missing uncertainty, a negative wavenumber and a negative uncertainty.
RowPool ==
    {<<IntCell(1000), FloatCell(Frac(1, 2)), FloatCell(Frac(1, 100))>>,
     <<IntCell(1200), IntCell(1), FloatCell(Frac(1, 50))>>,
     <<IntCell(1000), FloatCell(Inf), FloatCell(Frac(1, 100))>>,
     <<IntCell(1400), FloatCell(Frac(1, 4)), EmptyCell>>,
     <<IntCell(-5), FloatCell(Frac(1, 2)), FloatCell(Frac(1, 100))>>,
     <<IntCell(1200), FloatCell(Frac(1, 2)), FloatCell(Frac(-1, 100))>>}

\* The position in a row of RowPool of the column with a given name.
FieldOf == [Wavenumber |-> 1, Emissivity |-> 2, Uncertainty |-> 3, x |-> 1, y |-> 2]

\* The raw tables: a header with up to MaxRows rows, a table of one column
\* and the file of zero bytes.
RawTables ==
    {[columns |-> h,
      rows |-> Vector([i \in 1..Len(q) |->
                  Vector([j \in 1..Len(h) |-> q[i][FieldOf[h[j]]]])])] :
        h \in Headers, q \in InjSeqs(RowPool, MaxRows) \cup {<<>>}}
    \cup {[columns |-> <<"Wavenumber">>, rows |-> <<<<IntCell(1000)>>>>],
          [columns |-> <<>>, rows |-> <<>>]}

\* No analysis runs while the store is exercised.
AnalysisIdle ==
    /\ pc = "idle"
    /\ algorithm = "none"
    /\ EMdat = <<>>
    /\ M = <<>>
    /\ W = <<>>
    /\ endmembers = <<>>
    /\ abundances = <<>>
    /\ result = <<>>
    /\ err = "none"
    /\ names0 = <<>>
    /\ EMdat0 = <<>>
    /\ removed = <<>>
    /\ mixed_item = "none"
    /\ selection = <<>>
    /\ slicewl = FALSE
    /\ max_wl_var = DefaultMaxWl
    /\ wavenumber = <<>>
    /\ measurerr = <<>>

\* The user brings one table, as a .csv file, as a tab-separated .txt file
\* and as a .dat file; the pre-processed folders are empty.
InitStore ==
    /\ \E table \in RawTables :
        files = [p \in Paths |->
                    IF p = "sample_csv" THEN File(",", table.columns, table.rows)
                    ELSE IF p \in RawPaths THEN File("\t", table.columns, table.rows)
                    ELSE NoFile]
    /\ call = NoCall
    /\ data_df = NoFrame
    /\ AnalysisIdle

NextStore ==
    \/ pre_process_spectra
    \/ load_spectrum
    \/ Interpolate

StoreSpec == InitStore /\ [][NextStore]_vars

-----------------------------------------------------------------------------
(* The array interpolate_spectrum returns, in the hands of its caller:
   ResampleSpec *)

\* The values the caller writes in the array.
WrittenValues == {Zero, Frac(3, 4)}

\* values[k] = x, on the array the last call of interpolate_spectrum
\* returned.  The array of the spline is the caller's own.  The array of
\* line 324 is spectrum_df['Emissivity'].values: with pandas before 3.0 it
\* is a view of the data of the DataFrame and the write lands in the
\* DataFrame as well; with pandas 3.0 and its copy-on-write the view is
\* read-only and numpy raises.  No file of the repository says which pandas
\* is installed.
WriteReturned ==
    /\ call.op \in {"interpolate_spectrum", "setitem"}
    /\ call.raised = "none"
    /\ \E k \in 1..Len(call.value), x \in WrittenValues :
        LET written == [call EXCEPT !.op = "setitem", !.value[k] = x]
        IN IF call.base = "none"
           THEN call' = written /\ UNCHANGED data_df
           ELSE \/ /\ call' = written
                   /\ data_df' = [data_df EXCEPT !.Emissivity[k] = x]
                \/ /\ call' = [call EXCEPT
                                !.op = "setitem",
                                !.raised = "ValueError: assignment destination is read-only"]
                   /\ UNCHANGED data_df
    /\ UNCHANGED files
    /\ UNCHANGED analysisVars

\* The files of the pre-processed folders: what line 250 writes, rows of
\* increasing wavenumbers with their emissivity and uncertainty.
LibraryWavenumbers == <<1000, 1200, 1400, 1500>>
LibraryEmissivities == {Frac(1, 2), Frac(1, 4)}
LibraryFiles ==
    {File("\t", <<"Wavenumber", "Emissivity", "Uncertainty">>,
          Vector([i \in 1..n |-> <<IntCell(LibraryWavenumbers[i]), FloatCell(e[i]),
                                   FloatCell(Frac(1, 100))>>])) :
        n \in 1..MaxRows, e \in [1..MaxRows -> LibraryEmissivities]}

InitResample ==
    /\ \E file \in LibraryFiles :
        files = [p \in Paths |-> IF p = "library_txt" THEN file ELSE NoFile]
    /\ call = NoCall
    /\ data_df = NoFrame
    /\ AnalysisIdle

NextResample ==
    \/ load_spectrum
    \/ Interpolate
    \/ WriteReturned

ResampleSpec == InitResample /\ [][NextResample]_vars

----------------------------------------------------------------------------
(* Reading raw files of every format: IngestSpec *)

\* validate_file_format(file_path) called on its own, as line 357 does.
CallValidate ==
    /\ \E file_path \in Paths :
        \E file_format \in {validate_file_format(file_path)} :
            call' = IF file_format \in Formats
                    THEN Called("validate_file_format", file_path, "none", <<>>,
                                "none", <<file_format>>)
                    ELSE Called("validate_file_format", file_path, "none", <<>>,
                                file_format, <<>>)
    /\ UNCHANGED <<files, data_df>>
    /\ UNCHANGED analysisVars

\* read_csv_with_detection(file_path) called on its own, on a file of the
\* two formats lines 124 and 362 call it for.
CallDetect ==
    /\ \E file_path \in Paths :
        /\ validate_file_format(file_path) \in {"csv", "csv_disguised_as_excel"}
        /\ \E best_df \in {read_csv_with_detection(files[file_path])} :
            call' = Called("read_csv_with_detection", file_path, "none", <<>>,
                           best_df.raised,
                           IF best_df.raised = "none" THEN <<best_df>> ELSE <<>>)
    /\ UNCHANGED <<files, data_df>>
    /\ UNCHANGED analysisVars

\* The cell of the column called name in data line i of a raw table:
\* wavenumbers 1000, 1010, ..., emissivities 0.5, 0.6, ..., uncertainties
\* 0.01, 0.02, ..., a note that is missing in the first line, and text.
IngestCell(name, i) ==
    IF name \in {"Wavenumber", "x"} THEN IntCell(990 + 10 * i)
    ELSE IF name \in {"Emissivity", "y"} THEN FloatCell(Frac(4 + i, 10))
    ELSE IF name \in {"Uncertainty", "Signal std"} THEN FloatCell(Frac(i, 100))
    ELSE IF name = "Note" /\ i = 1 THEN EmptyCell
    ELSE TextCell

\* A raw file of delimited text.
TextFile(columns, n, gaps, encoding, stray) ==
    [exists |-> TRUE, container |-> "text", encoding |-> encoding,
     sep |-> IF gaps = <<>> THEN "," ELSE gaps[1], gaps |-> gaps, stray |-> stray,
     columns |-> columns,
     rows |-> Vector([i \in 1..n |->
                 Vector([j \in 1..Len(columns) |-> IngestCell(columns[j], i)])])]

\* The gaps of a line of n cells that holds one delimiter only.
Uniform(n, sep) == Vector([j \in 1..(n - 1) |-> sep])

\* The raw files of IngestSpec: every header with 0..MaxRows data lines,
\* separated by commas or by tabs; lines that hold commas and semicolons;
\* a name with a micro sign, in UTF-8 and in Latin-1; a remark after the
\* last line; the file of zero bytes.
IngestFiles ==
    {TextFile(h, n, Uniform(Len(h), sep), "ascii", "") :
        h \in IngestHeaders, n \in 0..MaxRows, sep \in {",", "\t"}}
    \cup
    UNION {{TextFile(h, n, Vector(g), "ascii", "") :
                g \in [1..(Len(h) - 1) -> {",", ";"}], n \in 1..MaxRows} :
           h \in {<<"Wavenumber", "Emissivity", "Uncertainty">>,
                  <<"Wavenumber", "Emissivity", "Uncertainty", "Note">>}}
    \cup
    {TextFile(<<"Wavenumber", "Emissivity", "Uncertainty">>, MaxRows,
              Uniform(3, sep), encoding, "") :
        sep \in {",", "|"}, encoding \in {"utf-8", "latin-1"}}
    \cup
    {TextFile(<<"Wavenumber", "Emissivity">>, n, Uniform(2, sep), "ascii", stray) :
        n \in 2..MaxRows, sep \in {",", "\t"}, stray \in {",", "\t"}}
    \cup
    {TextFile(<<>>, 0, <<>>, "ascii", "")}

\* What a path with a spreadsheet extension holds.
Containers == {"text", "workbook", "damaged"}

\* The user brings one file under four names: sample.csv, sample.txt,
\* sample.dat and sample.xlsx, the last one also saved as a workbook or cut
\* short while it was copied; the pre-processed folders are empty.
InitIngest ==
    /\ \E file \in IngestFiles, container \in Containers :
        /\ container # "text" => file.gaps = Uniform(Len(file.columns), ",")
                                 /\ file.stray = "" /\ file.encoding = "ascii"
        /\ files = [p \in Paths |->
                       IF p \in RawPaths THEN file
                       ELSE IF p \in WorkbookPaths
                       THEN [file EXCEPT !.container = container]
                       ELSE NoFile]
    /\ call = NoCall
    /\ data_df = NoFrame
    /\ AnalysisIdle

NextIngest ==
    \/ CallValidate
    \/ CallDetect
    \/ pre_process_spectra
    \/ load_spectrum

IngestSpec == InitIngest /\ [][NextIngest]_vars

----------------------------------------------------------------------------
(* Properties of run_WLS and run_STO, checked under Spec *)

Returned(alg) == pc = "returned" /\ algorithm = alg

\* x > 0 for a float64 x (false for nan).
Positive(x) == IsFinite(x) /\ RSign(x) > 0

\* The indices of the input names that are not among the returned names.
Dropped == {i \in 1..Len(names0) :
               \A k \in 1..Len(result.endmembers) : result.endmembers[k] # names0[i]}

\* C1: every abundance that run_WLS returns is > 0, and stays > 0 when
\* rounded to 2 decimals (the returned vector is a fixed point of pruning).
C1_WLSNonNegative ==
    Returned("WLS") =>
        \A i \in 1..Len(result.abundances) :
            /\ Positive(result.abundances[i])
            /\ Around2(result.abundances[i]) > 0

\* run_WLS has returned at least two abundances after pruning at least once.
C1_Witness ==
    /\ Returned("WLS")
    /\ Len(removed) >= 1
    /\ Len(result.abundances) >= 2

\* C2: a call never returns a result with no surviving end-member (pruning
\* that empties the set ends in an error).
C2_NeverReturnsEmpty ==
    pc = "returned" => Len(result.endmembers) > 0 /\ Len(result.abundances) > 0

\* C3: the abundances that run_STO returns sum to 1.
C3_STOSumToOne ==
    Returned("STO") => RSum(result.abundances) = One

\* run_STO has returned at least two abundances after pruning at least once.
C3_Witness ==
    /\ Returned("STO")
    /\ Len(removed) >= 1
    /\ Len(result.abundances) >= 2

C5_PruningBounded ==
    /\ pc \in {"run_WLS", "run_STO"} =>
          endmembers = names0 /\ EMdat = EMdat0 /\ removed = <<>>
    /\ Len(EMdat) = Len(endmembers)
    /\ \A r \in 1..Len(removed) : removed[r] # {}
    /\ Len(removed) + Len(endmembers) <= Len(names0)

\* A call on three end-members returned after two pruning passes.
C5_Witness ==
    /\ pc = "returned"
    /\ Len(names0) = 3
    /\ Len(removed) = 2

\* C6: the returned names, abundances and errors have one length K' <= K, the
\* names are the input names without the dropped ones, in the input order,
\* and the abundances and errors are those of the matrix whose i-th row is
\* the input row of the i-th returned name.
C6_ResultAligned ==
    pc = "returned" =>
        LET E == Delete(EMdat0, Dropped)
        IN /\ Len(result.endmembers) <= Len(names0)
           /\ Len(result.abundances) = Len(result.endmembers)
           /\ Len(result.errors_sq) = Len(result.endmembers)
           /\ result.endmembers = Delete(names0, Dropped)
           /\ EMdat = E
           /\ result.abundances = IF algorithm = "WLS" THEN SolveWLSA(E, W, M)
                                                      ELSE SolveSTOA(E, W, M)
           /\ result.errors_sq = ErrorsSq(E, W)

\* A call returned two of three end-members, having dropped the first.
C6_Witness ==
    /\ pc = "returned"
    /\ Len(names0) = 3
    /\ Dropped = {1}

\* The normalized abundances as C7 states them.
C7_Normalized(names, A, norm) ==
    IF \E i \in 1..Len(names) : names[i] = "BB"
    THEN /\ \A i \in 1..Len(norm) : IsFinite(norm[i])
         /\ \A i \in 1..Len(norm) : names[i] = "BB" => norm[i] = Zero
         /\ RSum(norm) = One
         /\ \A i, j \in 1..Len(norm) :
                names[i] # "BB" /\ names[j] # "BB" =>
                    RMul(norm[i], A[j]) = RMul(norm[j], A[i])
    ELSE norm = A

\* C7: with BB among the survivors of run_STO the normalized vector is 0 at
\* BB and the other abundances rescaled to the sum 1, without BB it is the
\* abundance vector; also when BB is the only survivor.
C7_STONormalized ==
    Returned("STO") =>
        C7_Normalized(result.endmembers, result.abundances,
                      result.normalized_abundances)

\* The first solve of the call and its non-positive entries.
FirstSolve == SolveWLSA(EMdat0, W, M)
FirstNegatives == Negatives(FirstSolve)

\* The second solve, on the rows the first pass leaves.
SecondSolve == SolveWLSA(Delete(EMdat0, FirstNegatives), W, M)

\* run_WLS returned from a call on three end-members whose first solve had
\* exactly one non-positive abundance.
C8_Scenario ==
    /\ Returned("WLS")
    /\ Len(names0) = 3
    /\ Cardinality(FirstNegatives) = 1

\* C8 as stated: in the scenario run_WLS returns after one pruning pass,
\* with exactly two end-members, each positive, without the pruned name.
C8_OnePassTwoSurvivors ==
    C8_Scenario =>
        /\ Len(removed) = 1
        /\ Len(result.endmembers) = 2
        /\ \A i \in 1..Len(result.abundances) : Positive(result.abundances[i])
        /\ \A i \in FirstNegatives, k \in 1..Len(result.endmembers) :
               result.endmembers[k] # names0[i]

\* C8 amended: in the scenario run_WLS returns at most two end-members, each
\* positive, without the pruned name; it returns after one pass with exactly
\* the two others and the second solve when that solve has no non-positive
\* (rounded) abundance, and prunes again, returning fewer than two, when it
\* has one.
C8_AtMostTwoSurvivors ==
    C8_Scenario =>
        /\ Len(result.endmembers) <= 2
        /\ \A i \in 1..Len(result.abundances) : Positive(result.abundances[i])
        /\ \A i \in FirstNegatives, k \in 1..Len(result.endmembers) :
               result.endmembers[k] # names0[i]
        /\ IF Negatives(SecondSolve) = {}
           THEN /\ Len(removed) = 1
                /\ result.endmembers = Delete(names0, FirstNegatives)
                /\ result.abundances = SecondSolve
           ELSE /\ Len(removed) >= 2
                /\ Len(result.endmembers) < 2

\* The scenario as the spec has it: one pass, two survivors.
C8_Witness ==
    /\ C8_Scenario
    /\ Len(removed) = 1
    /\ Len(result.endmembers) = 2

----------------------------------------------------------------------------
(* Properties of run_analysis_from_ui, checked under AnalysisSpec *)

\* The arrays are about to be, or have been, passed to run_WLS / run_STO.
AtSolver == pc \in {"run_algorithm", "run_WLS", "run_STO"}

\* The grid of the selected mixed spectrum after the optional cutoff.
CutGrid ==
    SelectSeq(MixedFiles[mixed_item].Wavenumber,
              LAMBDA wn : ~slicewl \/ 10000 <= max_wl_var * wn)

\* Every selected end-member has data at wn.
Covered(wn) ==
    \A k \in 1..Len(selection) :
        LET src == Library[selection[k]].Wavenumber
        IN Min(src) <= wn /\ wn <= Max(src)

\* C9: the arrays passed to the solver hold no NaN: the working grid is the
\* mixed grid (after the cutoff) without the channels that some selected
\* end-member does not cover, and wavenumber, M, uncertainty, the weights and
\* every end-member row are cut to that grid.
C9_NoNaNReachesSolver ==
    AtSolver =>
        /\ \A c \in 1..Len(M) : ~IsNaN(M[c])
        /\ \A k \in 1..Len(EMdat) : \A c \in 1..Len(EMdat[k]) : ~IsNaN(EMdat[k][c])
        /\ wavenumber = SelectSeq(CutGrid, Covered)
        /\ Len(EMdat) = Len(selection)
        /\ \A k \in 1..Len(EMdat) : Len(EMdat[k]) = Len(wavenumber)
        /\ Len(M) = Len(wavenumber)
        /\ Len(measurerr) = Len(wavenumber)
        /\ Len(W) = Len(wavenumber)
        /\ \A c \in 1..Len(wavenumber) :
              \E i \in 1..Len(MixedFiles[mixed_item].Wavenumber) :
                  /\ MixedFiles[mixed_item].Wavenumber[i] = wavenumber[c]
                  /\ MixedFiles[mixed_item].Emissivity[i] = M[c]
                  /\ MixedFiles[mixed_item].Uncertainty[i] = measurerr[c]

\* The scenario of the spec: the mixed spectrum covers 1000-1500, olivine
\* 1000-1400, and the solver is reached on 1000-1400.
C9_Witness ==
    /\ pc = "run_algorithm"
    /\ ~slicewl
    /\ \E k \in 1..Len(selection) : selection[k] = "olivine"
    /\ wavenumber = <<1000, 1200, 1400>>

\* C10: when the working grid is empty after the cutoff and the NaN
\* filtering, the analysis has failed with the alignment error ("No
\* overlapping spectral range") and the solver is not called.
C10_EmptyGridRejected ==
    (pc # "load_mixed" /\ Len(wavenumber) = 0) =>
        /\ names0 = <<>>
        /\ ~AtSolver
        /\ pc = "raised" => err = "ValueError: No overlapping spectral range"

----------------------------------------------------------------------------
(* Properties of pre_process_spectra, load_spectrum and                    *)
(* interpolate_spectrum, checked under StoreSpec                           *)

\* The numbers of column j of a file.
ColumnOf(file, j) == Vector([i \in 1..Len(file.rows) |-> to_numeric(file.rows[i][j])])

\* v[1] < v[2] < ... for a sequence of numbers without nan.
StrictlyIncreasing(v) == \A i \in 1..(Len(v) - 1) : ~RLeq(v[i + 1], v[i])

Normalized == call.op = "pre_process_spectra" /\ call.raised = "none"
Loaded == call.op = "load_spectrum" /\ call.raised = "none"
Resampled == call.op = "interpolate_spectrum"

\* C11: every file a successful pre_process_spectra has written holds the
\* three canonical columns and at least one row, its wavenumbers are
\* strictly increasing (sorted, no duplicate), every wavenumber is > 0 and
\* every uncertainty is >= 0.
C11_CanonicalSpectrum ==
    \A p \in OutputPaths :
        files[p].exists =>
            /\ files[p].columns = <<"Wavenumber", "Emissivity", "Uncertainty">>
            /\ Len(files[p].rows) >= 1
            /\ StrictlyIncreasing(ColumnOf(files[p], 1))
            /\ \A i \in 1..Len(files[p].rows) :
                  /\ Gt0(ColumnOf(files[p], 1)[i])
                  /\ Ge0(ColumnOf(files[p], 3)[i])

\* C11 witness: a raw table with the wavenumbers 1200, 1000, 1000 has been
\* normalized into two rows.
C11_Witness ==
    /\ Normalized
    /\ call.file_path \in RawPaths
    /\ ColumnOf(files[call.file_path], 1) = <<Num(1200), Num(1000), Num(1000)>>
    /\ Len(files[call.output_path].rows) = 2

\* The rows of the raw table of the last pre_process_spectra call, as
\* numbers.
RawRows == NumericFrame(ReadRaw(files[call.file_path],
                                validate_file_format(call.file_path)))

\* C12: after a successful pre_process_spectra, a raw row is in the
\* written file unless its wavenumber or emissivity is missing or not a
\* number, its wavenumber is <= 0, its uncertainty is < 0, or another raw
\* row has the same wavenumber; a missing uncertainty is no reason.
C12_RowsSurvive ==
    (Normalized /\ call.file_path # call.output_path) =>
        \A i \in 1..Len(RawRows) :
            LET r == RawRows[i]
                out == files[call.output_path]
            IN (/\ ~IsNaN(r.Wavenumber) /\ ~IsNaN(r.Emissivity)
                /\ Gt0(r.Wavenumber)
                /\ ~(~IsNaN(r.Uncertainty) /\ r.Uncertainty[1] < 0)
                /\ \A j \in 1..Len(RawRows) :
                      j # i => RawRows[j].Wavenumber # r.Wavenumber)
               => \E k \in 1..Len(out.rows) :
                     /\ to_numeric(out.rows[k][1]) = r.Wavenumber
                     /\ to_numeric(out.rows[k][2]) = r.Emissivity

\* C13: a pre_process_spectra call that fails raises and leaves every file
\* as it was, and it fails for an unsupported format, an empty file, fewer
\* than two columns and zero rows after the cleaning; a file changes only
\* in a call that succeeds.
C13_AllOrNothing ==
    [][call'.op = "pre_process_spectra" =>
        \A file_path \in {call'.file_path} :
        \A df_raw \in {ReadRaw(files[file_path], validate_file_format(file_path))} :
        LET file == files[file_path]
        IN /\ call'.raised # "none" => files' = files
           /\ files' # files => call'.raised = "none"
           /\ (\/ validate_file_format(file_path) = "unknown"
               \/ Len(file.columns) < 2
               \/ Len(file.rows) = 0
               \/ Len(CleanRows(NumericFrame(df_raw))) = 0)
              => call'.raised # "none"]_vars

\* C13 witness: a call has failed on a target that an earlier call wrote.
C13_Witness ==
    /\ call.op = "pre_process_spectra"
    /\ call.raised # "none"
    /\ files[call.output_path].exists

C15_LoadStrictlyIncreasing ==
    Loaded => StrictlyIncreasing(data_df.Wavenumber)

\* The file has the three required columns when it is read with tabs.
HasRequiredColumns(file) ==
    /\ file.exists
    /\ file.sep = "\t"
    /\ \A c \in {"Wavenumber", "Emissivity", "Uncertainty"} :
          \E j \in 1..Len(file.columns) : file.columns[j] = c

\* The rows of a file with the required columns whose three required cells
\* are numbers.
ValidRows(file) ==
    {i \in 1..Len(file.rows) :
        \A j \in 1..Len(file.columns) :
            file.columns[j] \in {"Wavenumber", "Emissivity", "Uncertainty"}
                => file.rows[i][j].kind \in {"int", "float"}}

\* C16: load_spectrum raises when a required column is absent and when no
\* valid row remains; otherwise it returns a spectrum, and a spectrum it
\* returns has at least one row.
C16_LoadNeverEmpty ==
    call.op = "load_spectrum" =>
        LET file == files[call.file_path]
        IN /\ ~HasRequiredColumns(file) => call.raised # "none"
           /\ (HasRequiredColumns(file) /\ ValidRows(file) = {}) => call.raised # "none"
           /\ (HasRequiredColumns(file) /\ ValidRows(file) # {}) => call.raised = "none"
           /\ call.raised = "none" =>
                 /\ Len(data_df.Wavenumber) >= 1
                 /\ Len(data_df.Emissivity) = Len(data_df.Wavenumber)
                 /\ Len(data_df.Uncertainty) = Len(data_df.Wavenumber)

\* C16 witness: a file with the three columns and rows, none of them valid,
\* has been refused.
C16_Witness ==
    /\ call.op = "load_spectrum"
    /\ HasRequiredColumns(files[call.file_path])
    /\ Len(files[call.file_path].rows) >= 1
    /\ call.raised = "ValueError: Failed to load spectrum: No valid data in file"

\* C17: every value of a spectrum load_spectrum returns is finite.
C17_LoadFinite ==
    Loaded =>
        \A i \in 1..Len(data_df.Wavenumber) :
            /\ IsFinite(data_df.Wavenumber[i])
            /\ IsFinite(data_df.Emissivity[i])
            /\ IsFinite(data_df.Uncertainty[i])

\* The source of the last interpolate_spectrum call is a spectrum: finite
\* values on strictly increasing wavenumbers.
SourceIsSpectrum ==
    /\ StrictlyIncreasing(data_df.Wavenumber)
    /\ \A i \in 1..Len(data_df.Emissivity) : IsFinite(data_df.Emissivity[i])

\* C18: for a source spectrum of two or more points, a target position
\* strictly outside the source range makes no error, and the value returned
\* at that position is nan.
C18_NoExtrapolation ==
    (Resampled /\ SourceIsSpectrum /\ Len(data_df.Wavenumber) >= 2) =>
        LET xs == Ints(data_df.Wavenumber)
        IN \A k \in 1..Len(call.target) :
              (call.target[k] < Min(xs) \/ call.target[k] > Max(xs))
                  => /\ call.raised = "none"
                     /\ Len(call.value) = Len(call.target)
                     /\ IsNaN(call.value[k])

\* C18 witness: a grid from 900 to 1500 on a source that starts at 1000 and
\* ends before 1500: nan at both ends, a number at 1000.
C18_Witness ==
    /\ Resampled
    /\ SourceIsSpectrum
    /\ Len(data_df.Wavenumber) >= 2
    /\ data_df.Wavenumber[1] = Num(1000)
    /\ call.target = <<900, 1000, 1100, 1500>>
    /\ IsNaN(call.value[1]) /\ IsFinite(call.value[2]) /\ IsNaN(call.value[4])

\* C19: when the target grid is the source grid, interpolate_spectrum
\* returns the source emissivities, unchanged and in order.
C19_ExactMatch ==
    (Resampled /\ call.target = Ints(data_df.Wavenumber)) =>
        /\ call.raised = "none"
        /\ call.value = data_df.Emissivity

\* C19 witness: a source of three points resampled on its own grid.
C19_Witness ==
    /\ Resampled
    /\ call.target = <<1000, 1200, 1400>>
    /\ Ints(data_df.Wavenumber) = call.target
    /\ call.value = data_df.Emissivity

\* C20: interpolate_spectrum raises the error of line 331 whenever the
\* source has fewer than two points, whatever the target grid.
C20_InsufficientPoints ==
    (Resampled /\ Len(data_df.Wavenumber) < 2) =>
        call.raised = "ValueError: Need at least 2 data points"

----------------------------------------------------------------------------
(* One pass of the pruning loops, checked under Spec *)

\* The entries of q at the positions of keep, in the order of q.
KeptOf(q, keep) ==
    LET f[i \in 0..Len(q)] ==
            IF i = 0 THEN <<>>
            ELSE IF i \in keep THEN Append(f[i - 1], q[i]) ELSE f[i - 1]
    IN f[Len(q)]

\* The positions whose abundance is at most 0.005: the numbers that
\* np.around(x, 2) takes to 0.0 or below.
NonPositive(A) == {i \in 1..Len(A) : RLeq(A[i], Frac(1, 200))}

\* What a step of a pruning loop does to the end-members.
PruneStep ==
    pc \in {"WLS_while", "STO_while"} =>
        LET gone == NonPositive(abundances)
            keep == (1..Len(abundances)) \ gone
        IN /\ pc' = "returned" => gone = {}
           /\ pc' # "returned" =>
                 /\ gone # {}
                 /\ endmembers' = KeptOf(endmembers, keep)
                 /\ EMdat' = KeptOf(EMdat, keep)
                 /\ removed' = Append(removed, {endmembers[i] : i \in gone})
                 /\ pc' # "raised" =>
                       abundances' = IF algorithm = "WLS"
                                     THEN SolveWLSA(EMdat', W, M)
                                     ELSE SolveSTOA(EMdat', W, M)

----------------------------------------------------------------------------
(* Properties of the readers of raw files, checked under IngestSpec *)

Validated == call.op = "validate_file_format"
Detected == call.op = "read_csv_with_detection"
Processed == call.op = "pre_process_spectra"

NormalizedFrom(df) ==
    IF df.raised # "none" \/ Len(df.rows) = 0 \/ Len(df.columns) < 2
    THEN call.raised # "none"
    ELSE \A clean_df \in {CleanRows(NumericFrame(df))} :
            /\ call.value = UsingColumns(df)
            /\ call.raised = "none" <=> Len(clean_df) > 0
            /\ call.raised = "none" =>
                  \E sorted \in sort_values(clean_df) :
                     files[call.output_path] = to_csv(drop_duplicates(sorted), Dtypes(df))

\* C23: pre_process_spectra reads a file by its classification: csv and
\* csv_disguised_as_excel through read_csv_with_detection, with the same
\* outcome for the same bytes; excel through read_excel; txt with tabs, and
\* with commas only if the read with tabs raises; unknown, or no
\* classification at all, ends the call with an exception.
C23_Routing ==
    Processed /\ call.file_path \notin OutputPaths =>
        \A file \in {files[call.file_path]} :
        \A file_format \in {validate_file_format(call.file_path)} :
            /\ file_format \in {"csv", "csv_disguised_as_excel"}
                  => NormalizedFrom(read_csv_with_detection(file))
            /\ file_format = "excel" => NormalizedFrom(read_excel(file))
            /\ file_format = "txt" =>
                  \A tab \in {read_csv(file, "\t", "utf-8")} :
                     IF tab.raised = "none" THEN NormalizedFrom(tab)
                     ELSE NormalizedFrom(read_csv(file, ",", "utf-8"))
            /\ file_format = "unknown" => call.raised = "ValueError: Unsupported file format"
            /\ file_format \notin Formats => call.raised # "none"

\* C23 witness: comma-separated text called sample.xlsx has been normalized.
C23_Witness ==
    /\ Processed
    /\ validate_file_format(call.file_path) = "csv_disguised_as_excel"
    /\ files[call.file_path].gaps = <<",">>
    /\ call.raised = "none"
    /\ files[call.output_path].exists

\* A .txt file that raises when it is read with tabs has been normalized
\* from its read with commas.
TxtFallback ==
    /\ Processed
    /\ validate_file_format(call.file_path) = "txt"
    /\ read_csv(files[call.file_path], "\t", "utf-8").raised # "none"
    /\ call.raised = "none"

\* The table of every delimiter d and encoding e of the two lists, or the
\* exception of its read.
Candidates(file) ==
    Vector([d \in 1..Len(delimiters) |->
        Vector([e \in 1..Len(encodings) |-> read_csv(file, delimiters[d], encodings[e])])])

\* The places of the candidates that parse to 2 columns or more.
Viable(cands) ==
    {p \in (1..Len(delimiters)) \X (1..Len(encodings)) :
        cands[p[1]][p[2]].raised = "none" /\ Len(cands[p[1]][p[2]].columns) >= 2}

\* Column count x numeric columns among the first 3 x row count.
CandidateScore(df) ==
    LET numeric(j) == \A i \in 1..Len(df.rows) : i <= 10 => df.rows[i][j].kind # "text"
    IN Len(df.columns)
       * Cardinality({j \in 1..Len(df.columns) : j <= 3 /\ numeric(j)})
       * Len(df.rows)

\* Place p comes before place q in the two loops: delimiter first.
Before(p, q) == p[1] < q[1] \/ (p[1] = q[1] /\ p[2] < q[2])

C25_FailsOnlyWithoutCandidate ==
    Detected => (call.raised # "none" <=> Viable(Candidates(files[call.file_path])) = {})

\* The columns of the raw table of the call, once they are identified.
Identified == Processed /\ call.file_path \notin OutputPaths /\ Len(call.value) = 3
RawColumns == ReadRaw(files[call.file_path], validate_file_format(call.file_path)).columns

\* The first column, none of those in taken, whose name holds a keyword of
\* the role; 0 when there is none.
FirstMatch(columns, role, taken) ==
    LET matching == {i \in 1..Len(columns) : i \notin taken /\ role \in Keywords[columns[i]]}
    IN IF matching = {} THEN 0 ELSE CHOOSE i \in matching : \A j \in matching : i <= j

\* The names printed for the columns w, e, u found by name (0 for none),
\* after the fallback to the first, second and third column.
Bound(columns, w, e, u) ==
    <<columns[IF w = 0 THEN 1 ELSE w],
      columns[IF e = 0 THEN 2 ELSE e],
      IF u # 0 THEN columns[u] ELSE IF Len(columns) > 2 THEN columns[3] ELSE "None">>

\* C26 as stated: every role goes to the first column whose name holds one
\* of its keywords, whatever the other roles got; a role without a match
\* goes to the column of its position.
C26_FirstMatchPerRole ==
    Identified =>
        \A columns \in {RawColumns} :
            call.value = Bound(columns,
                               FirstMatch(columns, "wavenumber", {}),
                               FirstMatch(columns, "emissivity", {}),
                               FirstMatch(columns, "uncertainty", {}))

\* C26, amended: a column gets one role at most.  Wavenumber goes to the
\* first column that matches it, emissivity to the first matching column
\* that did not get wavenumber, uncertainty to the first matching column
\* that got neither; a role without such a column goes to the column of
\* its position.
C26_OneRolePerColumn ==
    Identified =>
        \A columns \in {RawColumns} :
        \A w \in {FirstMatch(columns, "wavenumber", {})} :
        \A e \in {FirstMatch(columns, "emissivity", {w})} :
            call.value = Bound(columns, w, e, FirstMatch(columns, "uncertainty", {w, e}))

\* C26 witness: the second column matches emissivity and uncertainty, got
\* emissivity, and uncertainty went to the third column.
C26_Witness ==
    /\ Identified
    /\ call.value = <<"Wavenumber", "Signal std", "Uncertainty">>

\* The raw table of the call and the place of the column called name in it.
RawTable == ReadRaw(files[call.file_path], validate_file_format(call.file_path))
Place(columns, name) == CHOOSE j \in 1..Len(columns) : columns[j] = name

\* C27: when the raw table has no uncertainty column, or the column holds
\* text that is not a number, the rows with a valid wavenumber and a valid
\* emissivity are written with uncertainty = 0.02 x |emissivity|.
C27_SynthesizedUncertainty ==
    Identified =>
        \A df \in {RawTable} :
            LET w == Place(df.columns, call.value[1])
                e == Place(df.columns, call.value[2])
                absent == call.value[3] = "None"
                text == /\ ~absent
                        /\ \E i \in 1..Len(df.rows) :
                              df.rows[i][Place(df.columns, call.value[3])].kind = "text"
                valid == {i \in 1..Len(df.rows) :
                             /\ Gt0(to_numeric(df.rows[i][w]))
                             /\ ~IsNaN(to_numeric(df.rows[i][e]))}
                written == files[call.output_path].rows
            IN absent \/ text =>
                  /\ valid # {} => call.raised = "none"
                  /\ call.raised = "none" =>
                        /\ Len(written) > 0
                        /\ \A k \in 1..Len(written) :
                              written[k][3].val = FMul(Frac(2, 100), FAbs(written[k][2].val))

\* The raw table has no uncertainty column and its rows are written with
\* the uncertainties 0.01 and 0.012 of the emissivities 0.5 and 0.6.
SynthesizedScenario ==
    /\ Identified
    /\ call.value = <<"Wavenumber", "Emissivity", "None">>
    /\ call.raised = "none"
    /\ ColumnOf(files[call.output_path], 2) = <<Frac(1, 2), Frac(3, 5)>>
    /\ ColumnOf(files[call.output_path], 3) = <<Frac(1, 100), Frac(12, 1000)>>

\* C29: the columns identified as wavenumber, as emissivity and, when there
\* is one, as uncertainty are three different columns of the raw table.
C29_DistinctColumns ==
    Identified =>
        /\ call.value[1] # call.value[2]
        /\ call.value[3] # "None" => call.value[3] \notin {call.value[1], call.value[2]}

\* C30: load_spectrum returns every row of the file whose Wavenumber,
\* Emissivity and Uncertainty cells are numbers, whatever the cells of the
\* other columns of the row hold.
C30_RowsDependOnRequiredColumns ==
    call.op = "load_spectrum" =>
        \A df \in {read_csv(files[call.file_path], "\t", "utf-8")} :
            LET required == {"Wavenumber", "Emissivity", "Uncertainty"}
                cell(i, name) == to_numeric(df.rows[i][Place(df.columns, name)])
            IN (/\ df.raised = "none"
                /\ \A name \in required : \E j \in 1..Len(df.columns) : df.columns[j] = name)
               => \A i \in 1..Len(df.rows) :
                     (\A name \in required : ~IsNaN(cell(i, name)))
                     => /\ call.raised = "none"
                        /\ \E k \in 1..Len(data_df.Wavenumber) :
                              /\ data_df.Wavenumber[k] = cell(i, "Wavenumber")
                              /\ data_df.Emissivity[k] = cell(i, "Emissivity")
                              /\ data_df.Uncertainty[k] = cell(i, "Uncertainty")


\* C21: interpolate_spectrum leaves the spectrum it is given as it was, and
\* a write in the array it returned leaves the emissivity of the loaded
\* spectrum as it was, whichever path returned the array.
C21_SourceImmutable ==
    [][/\ call'.op = "interpolate_spectrum" => data_df' = data_df
       /\ call'.op = "setitem" => data_df'.Emissivity = data_df.Emissivity]_vars

====
